---- MODULE Spec2Model ----
(***************************************************************************)
(* A model of the zest test runner: the multi-process runner               *)
(* (zest_runner_multi_thread.py), the command line's polling loop          *)
(* (zest_cli.py), the single-process runner                                *)
(* (zest_runner_single_thread.py), the engine (zest.do) as the pool's      *)
(* workers and ZestRunner.run (zest_runner.py) call it, the discovery loop *)
(* of ZestRunner.run, the reader of event logs, ZestRunner.recurse_ast,    *)
(* and the console UI (ZestConsoleUI) with its runner thread.              *)
(***************************************************************************)
EXTENDS Integers, Sequences, FiniteSets, TLC

\* ------------------------------------------------------------------ bounds
\* Number of root zests found (one work order each).
NRoots == 3
\* Incidents during one run: a worker process killed from outside, an
\* exception escaping the engine or the module loader, a test-body error.
MaxIncidents == 1
\* Records a process may have put on the queue and not yet flushed to the pipe.
MaxUnflushed == 1

\* The test trees the engine is run on: the number of root zests, the
\* number of children of each root, and the number of nodes of the trees
\* that are marked (skip-annotated, or with a body that does not just pass).
NTreeRoots == 2
NChildren == 2
MaxMarked == 2
\* The longest match_string, in characters.
MaxMatchLen == 2
\* The most lines an event log that is read back holds.
MaxLines == 4

\* The most statements the body of a zest function that is parsed holds.
MaxParts == 3

\* The zests/ folders ZestRunner.walk yields, one root zest in each.
NDirs == 2
\* The most errors recurse_ast counts in n_zest_missing_errors.
MaxMissing == 1

\* ZestRunnerMultiThread.__init__(n_workers=2)
NWorkers == 2

Roots == 1..NRoots
\* Every process the pool may ever hold: the first NWorkers, and one
\* replacement per process killed.
Pids == 1..(NWorkers + MaxIncidents)

NoResult == [kind |-> "none", root |-> 0, is_running |-> FALSE,
             error |-> FALSE, pid |-> 0, worker_i |-> -1]

\* A ZestResult as the engine hands it to the callbacks (worker_i is set by
\* the coordinator only).
ZestResult(root, is_running, error, pid) ==
    [kind |-> "result", root |-> root, is_running |-> is_running,
     error |-> error, pid |-> pid, worker_i |-> -1]

\* The exception object a worker puts on the queue.
ErrorSentinel(root, pid) ==
    [kind |-> "exc", root |-> root, is_running |-> FALSE,
     error |-> TRUE, pid |-> pid, worker_i |-> -1]

\* The IndexError of worker_status[worker_i] with worker_i out of range.
IndexError(zr) == [zr EXCEPT !.kind = "IndexError"]

\* The records the engine emits for one root zest, by is_running: the
\* root's start record, then its stop record (the records of the root's
\* children would lie between the two).
EngineScript == <<TRUE, FALSE>>

ScriptLen == Len(EngineScript)

ScriptIsRunning(pos) == EngineScript[pos]

Range(s) == {s[i] : i \in 1..Len(s)}

VARIABLES
    \* ---- coordinator (ZestRunnerMultiThread and the loop of zest_cli.main)
    pc,               \* where the coordinator is: "init" before run(); in poll,
                      \* "drain" (the loop over the queue), "check" (the test
                      \* that ends poll) or "join" (False is being returned);
                      \* "exited" once the loop is left, "crashed" once an
                      \* exception has left poll
    request_stop,
    retcode,
    exit_code,        \* the process's exit status, -1 while it runs
    surfaced,         \* the exception that left poll
    pool,             \* "none", "closed" (running, accepts no more work), "terminated"
    pid_to_worker_i,
    worker_status,
    results,
    called,           \* the records the callback was called with, in order
    \* ---- the pool and its worker processes
    pending,          \* work orders no worker has taken yet
    done,             \* work orders whose call has completed
    procs,            \* pid -> [st, root, pos]
    n_procs,          \* processes started so far
    \* ---- the result queue and the event logs
    feed,             \* pid -> records put() but not yet flushed to the pipe
    queue,            \* the records in the pipe, readable by the coordinator
    evt,              \* root -> the lines of <root>.evt
    put_log,          \* every object a worker has put on the queue
    raised,           \* work orders in which an exception escaped, and where
    \* ---- the single-process runner (ZestRunnerSingleThread.__init__) and
    \* ---- the engine's accounting
    st_pc,            \* "launch" (the loop over root_zests), then for the
                      \* root under way "start", "body", "stop"; "complete"
                      \* once retcode is set
    root_i,           \* the root under way, in discovery order
    call_errors,      \* zest._call_errors
    call_warnings,    \* zest._call_warnings
    \* ---- the engine (zest.do) and the process that calls it
    tree,             \* the test trees: the nodes with skip reasons, and the
                      \* nodes whose body fails, never ends its declaration
                      \* phase, or raises what the engine does not trap
    bypass_skip,      \* zest._bypass_skip
    eng_mode,         \* the caller: "worker" (_do_work_order in a pool
                      \* process) or "runner" (ZestRunner.run)
    eng_pc,           \* "idle" between roots, "ready" after a reset, "run"
                      \* inside zest.do, "faulted" / "aborted" after an
                      \* exception left zest.do
    next_root,        \* the next root to run
    frames,           \* the calls of the engine under way, outermost first:
                      \* the node and the next child to enter (0: body not
                      \* yet reached)
    call_stack,       \* zest._call_stack
    call_log,         \* zest._call_log
    invoked,          \* the nodes whose body has been invoked
    events,           \* the records handed to the callbacks, in order
    disable_shuffle,  \* zest._disable_shuffle
    allow_to_run,     \* zest._allow_to_run: "__all__" or a set of nodes
    timings,          \* ZestRunner.timings (the node of each entry)
    \* ---- the discovery loop of ZestRunner.run
    zests,            \* the nodes recurse_ast finds
    match_string,     \* the characters of match_string, <<>> for None
    \* ---- read_zest_result_line on an event log
    fd,               \* the lines of the file
    fd_pos,           \* lines read so far
    yielded,          \* the records yielded so far
    rd_pc,            \* "reading", "eof" (the generator has returned), or
                      \* "raised" (an exception has left it)
    \* ---- ZestRunner.recurse_ast on a module
    module_body,      \* the body of the module's AST
    reports,          \* the errors recurse_ast has written, in order
    n_zest_missing_errors,  \* ZestRunner.n_zest_missing_errors
    ast_pc,           \* "parsed", then "done" once recurse_ast has returned
    \* ---- ZestConsoleUI: the UI thread and the runner thread
    ui_pc,            \* where the UI thread is in its loop
    run_state,
    request_run,      \* "None", "*" or "auto" (the name of a failed test)
    request_auto_run, \* whether it is set
    show_error,       \* whether it is set
    stop_requested,
    runner_thread,    \* "None" or "Thread"
    thread,           \* the Thread object: "none" before it is made,
                      \* "new", "alive" or "ended"
    n_errors,         \* len(self.errors)
    seen_not_none,    \* runner_thread_is_running: the first operand of
                      \* its "and" has been found true
    \* ---- ZestRunner.run in the runner thread
    run_pc,           \* "none", "walk", "launch", "root", "complete",
                      \* "finally", "ended"
    dirs_left,        \* zests/ folders walk() has yet to yield
    root_zest_funcs,  \* the roots found so far (their number)
    has_run,          \* the roots launched so far (their number)
    run_errors,       \* len(zest._call_errors)
    run_retcode,      \* self.retcode of ZestRunner: -1 until it is set
    scan_missing,     \* the errors recurse_ast wrote during this run
    stop_seen         \* event_stop_requested() has returned true in this run

mp_vars == <<pc, request_stop, retcode, exit_code, surfaced, pool,
             pid_to_worker_i, worker_status, results, called, pending, done,
             procs, n_procs, feed, queue, evt, put_log, raised>>

st_vars == <<st_pc, root_i, call_errors, call_warnings>>

eng_vars == <<tree, bypass_skip, eng_mode, eng_pc, next_root, frames,
              call_stack, call_log, invoked, events, disable_shuffle,
              allow_to_run, timings, zests, match_string>>

rd_vars == <<fd, fd_pos, yielded, rd_pc>>

ast_vars == <<module_body, reports, n_zest_missing_errors, ast_pc>>

ui_only == <<ui_pc, run_state, request_run, request_auto_run, show_error,
             stop_requested, runner_thread, thread, n_errors, seen_not_none>>

run_only == <<run_pc, dirs_left, root_zest_funcs, has_run, run_errors,
              run_retcode, scan_missing, stop_seen>>

ui_vars == <<ui_only, run_only>>

vars == <<mp_vars, st_vars, eng_vars, rd_vars, ast_vars, ui_vars>>

Idle == [st |-> "idle", root |-> 0, pos |-> 0]
Unborn == [st |-> "unborn", root |-> 0, pos |-> 0]
Dead == [st |-> "dead", root |-> 0, pos |-> 0]

\* ------------------------------------------------------------ construction
MPInit ==
    /\ pc = "init"
    /\ request_stop = FALSE
    /\ retcode = 0
    /\ exit_code = -1
    /\ surfaced = NoResult
    /\ pool = "none"
    /\ pid_to_worker_i = <<>>
    /\ worker_status = [i \in 0..(NWorkers - 1) |-> NoResult]
    /\ results = <<>>
    /\ called = <<>>
    /\ pending = <<>>
    /\ done = {}
    /\ procs = [p \in Pids |-> Unborn]
    /\ n_procs = 0
    /\ feed = [p \in Pids |-> <<>>]
    /\ queue = <<>>
    /\ evt = [r \in Roots |-> <<>>]
    /\ put_log = {}
    /\ raised = {}

\* ------------------------------------------------- ZestRunnerMultiThread.run
\* One work order per root zest, the pool of n_workers processes, the orders
\* handed to starmap_async, and the pool closed to further work.
Run_PoolTooLarge ==
    /\ pc = "init"
    /\ pool = "none"
    /\ pool' = "closed"
    /\ pending' = [i \in 1..NRoots |-> i]
    /\ procs' = [p \in Pids |-> Idle]
    /\ n_procs' = NWorkers
    /\ evt' = [r \in Roots |-> <<>>]
    /\ pc' = "drain"
    /\ UNCHANGED <<request_stop, retcode, exit_code, surfaced,
                   pid_to_worker_i, worker_status, results, called, done,
                   feed, queue, put_log, raised>>
    /\ UNCHANGED st_vars
    /\ UNCHANGED eng_vars
    /\ UNCHANGED <<rd_vars, ast_vars, ui_vars>>

Run_OrderTwice ==
    /\ pc = "init"
    /\ pool = "none"
    /\ pool' = "closed"
    /\ pending' = [i \in 1..(NRoots + 1) |-> IF i <= NRoots THEN i ELSE 1]
    /\ procs' = [p \in Pids |-> IF p <= NWorkers THEN Idle ELSE Unborn]
    /\ n_procs' = NWorkers
    /\ evt' = [r \in Roots |-> <<>>]
    /\ pc' = "drain"
    /\ UNCHANGED <<request_stop, retcode, exit_code, surfaced,
                   pid_to_worker_i, worker_status, results, called, done,
                   feed, queue, put_log, raised>>
    /\ UNCHANGED st_vars
    /\ UNCHANGED eng_vars
    /\ UNCHANGED <<rd_vars, ast_vars, ui_vars>>

Run ==
    /\ pc = "init"
    /\ pool = "none"
    /\ pool' = "closed"
    /\ pending' = [i \in 1..NRoots |-> i]
    /\ procs' = [p \in Pids |-> IF p <= NWorkers THEN Idle ELSE Unborn]
    /\ n_procs' = NWorkers
    /\ evt' = [r \in Roots |-> <<>>]
    /\ pc' = "drain"
    /\ UNCHANGED <<request_stop, retcode, exit_code, surfaced,
                   pid_to_worker_i, worker_status, results, called, done,
                   feed, queue, put_log, raised>>
    /\ UNCHANGED st_vars
    /\ UNCHANGED eng_vars
    /\ UNCHANGED <<rd_vars, ast_vars, ui_vars>>

\* ------------------------------------------------------ the pool's workers
\* Stop records put so far that carry a test-body error.
NErrors == Cardinality({z \in put_log : z.kind = "result" /\ z.error})

\* Records put so far whose serialization raised TypeError (they are on the
\* queue and not in the event stream).
NUnlogged ==
    Cardinality({z \in put_log : z.kind = "result" /\ z \notin Range(evt[z.root])})

\* Incidents so far: exceptions escaped, test-body errors, serialization
\* errors, processes killed.
NIncidents == Cardinality(raised) + NErrors + NUnlogged + (n_procs - NWorkers)

\* The pool hands the next pending work order to a worker that is free, and
\* the worker runs _do_work_order up to the try block: zest.reset, the event
\* stream opened for writing (which truncates it), the root's module loaded.
DoWorkOrderSetup_NoDequeue(p) ==
    /\ pool = "closed"
    /\ procs[p].st = "idle"
    /\ pending # <<>>
    /\ evt' = [evt EXCEPT ![Head(pending)] = <<>>]
    /\ procs' = [procs EXCEPT ![p] = [st |-> "run", root |-> Head(pending), pos |-> 1]]
    /\ UNCHANGED <<pc, request_stop, retcode, exit_code, surfaced, pool,
                   pid_to_worker_i, worker_status, results, called, done,
                   n_procs, feed, queue, put_log, raised, pending>>
    /\ UNCHANGED st_vars
    /\ UNCHANGED eng_vars
    /\ UNCHANGED <<rd_vars, ast_vars, ui_vars>>

DoWorkOrderSetup(p) ==
    /\ pool = "closed"
    /\ procs[p].st = "idle"
    /\ pending # <<>>
    /\ pending' = Tail(pending)
    /\ evt' = [evt EXCEPT ![Head(pending)] = <<>>]
    /\ procs' = [procs EXCEPT ![p] = [st |-> "run", root |-> Head(pending), pos |-> 1]]
    /\ UNCHANGED <<pc, request_stop, retcode, exit_code, surfaced, pool,
                   pid_to_worker_i, worker_status, results, called, done,
                   n_procs, feed, queue, put_log, raised>>
    /\ UNCHANGED st_vars
    /\ UNCHANGED eng_vars
    /\ UNCHANGED <<rd_vars, ast_vars, ui_vars>>

\* What _do_work_order puts on the queue when load_module raises: nothing,
\* the call is outside the try block.
LoadFaultPuts(root, pid) == <<>>

\* The same, with load_module raising: the exception leaves _do_work_order,
\* and the pool records the call as completed (the exception its outcome).
DoWorkOrderLoadFault(p) ==
    /\ pool = "closed"
    /\ procs[p].st = "idle"
    /\ pending # <<>>
    /\ NIncidents < MaxIncidents
    /\ pending' = Tail(pending)
    /\ evt' = [evt EXCEPT ![Head(pending)] = <<>>]
    /\ raised' = raised \cup {[root |-> Head(pending), pid |-> p, at |-> "load"]}
    /\ feed' = [feed EXCEPT ![p] = feed[p] \o LoadFaultPuts(Head(pending), p)]
    /\ put_log' = put_log \cup Range(LoadFaultPuts(Head(pending), p))
    /\ done' = done \cup {Head(pending)}
    /\ UNCHANGED <<pc, request_stop, retcode, exit_code, surfaced, pool,
                   pid_to_worker_i, worker_status, results, called, procs,
                   n_procs, queue>>
    /\ UNCHANGED st_vars
    /\ UNCHANGED eng_vars
    /\ UNCHANGED <<rd_vars, ast_vars, ui_vars>>

\* emit_zest_result: the record's line is written to the stream in one
\* unbuffered write; a TypeError while it is serialized is logged and
\* nothing is written.
EmitZestResult_Prepend(stream, zest_result, dumps_ok) == <<zest_result>> \o stream

EmitZestResult(stream, zest_result, dumps_ok) ==
    IF dumps_ok THEN Append(stream, zest_result) ELSE stream

\* event_callback: the record is emitted to the event stream, then put on
\* the queue (that is, handed to the queue's feeder thread).
EventCallback(p) ==
    /\ procs[p].st = "run"
    /\ procs[p].pos <= ScriptLen
    /\ Len(feed[p]) < MaxUnflushed
    /\ \E err \in (IF ScriptIsRunning(procs[p].pos) \/ NIncidents >= MaxIncidents
                   THEN {FALSE} ELSE BOOLEAN) :
       \E dumps_ok \in (IF err \/ NIncidents >= MaxIncidents
                        THEN {TRUE} ELSE BOOLEAN) :
          LET zest_result == ZestResult(procs[p].root,
                                        ScriptIsRunning(procs[p].pos), err, p)
          IN /\ evt' = [evt EXCEPT ![procs[p].root] =
                                      EmitZestResult(@, zest_result, dumps_ok)]
             /\ feed' = [feed EXCEPT ![p] = Append(@, zest_result)]
             /\ put_log' = put_log \cup {zest_result}
    /\ procs' = [procs EXCEPT ![p].pos = @ + 1]
    /\ UNCHANGED <<pc, request_stop, retcode, exit_code, surfaced, pool,
                   pid_to_worker_i, worker_status, results, called, pending, done,
                   n_procs, queue, raised>>
    /\ UNCHANGED st_vars
    /\ UNCHANGED eng_vars
    /\ UNCHANGED <<rd_vars, ast_vars, ui_vars>>

\* An exception leaves zest.do: the except clause puts it on the queue, the
\* finally clause closes the stream, and the call returns.
DoWorkOrderEngineFault(p) ==
    /\ procs[p].st = "run"
    /\ Len(feed[p]) < MaxUnflushed
    /\ NIncidents < MaxIncidents
    /\ raised' = raised \cup {[root |-> procs[p].root, pid |-> p, at |-> "engine"]}
    /\ feed' = [feed EXCEPT ![p] = Append(@, ErrorSentinel(procs[p].root, p))]
    /\ put_log' = put_log \cup {ErrorSentinel(procs[p].root, p)}
    /\ done' = done \cup {procs[p].root}
    /\ procs' = [procs EXCEPT ![p] = Idle]
    /\ UNCHANGED <<pc, request_stop, retcode, exit_code, surfaced, pool,
                   pid_to_worker_i, worker_status, results, called, pending,
                   n_procs, queue, evt>>
    /\ UNCHANGED st_vars
    /\ UNCHANGED eng_vars
    /\ UNCHANGED <<rd_vars, ast_vars, ui_vars>>

\* zest.do returns: the stream is closed and the call returns.
DoWorkOrderReturn(p) ==
    /\ procs[p].st = "run"
    /\ procs[p].pos = ScriptLen + 1
    /\ done' = done \cup {procs[p].root}
    /\ procs' = [procs EXCEPT ![p] = Idle]
    /\ UNCHANGED <<pc, request_stop, retcode, exit_code, surfaced, pool,
                   pid_to_worker_i, worker_status, results, called, pending,
                   n_procs, feed, queue, evt, put_log, raised>>
    /\ UNCHANGED st_vars
    /\ UNCHANGED eng_vars
    /\ UNCHANGED <<rd_vars, ast_vars, ui_vars>>

\* The queue's feeder thread in process p flushes one record to the pipe.
QueueFeed(p) ==
    /\ procs[p].st \notin {"unborn", "dead"}
    /\ feed[p] # <<>>
    /\ queue' = Append(queue, Head(feed[p]))
    /\ feed' = [feed EXCEPT ![p] = Tail(@)]
    /\ UNCHANGED <<pc, request_stop, retcode, exit_code, surfaced, pool,
                   pid_to_worker_i, worker_status, results, called, pending, done,
                   procs, n_procs, evt, put_log, raised>>
    /\ UNCHANGED st_vars
    /\ UNCHANGED eng_vars
    /\ UNCHANGED <<rd_vars, ast_vars, ui_vars>>

\* A worker process is killed from outside; what it had not flushed is lost,
\* its work order never completes, and the pool starts a process in its place.
WorkerDies(p) ==
    /\ pool = "closed"
    /\ procs[p].st = "run"
    /\ NIncidents < MaxIncidents
    /\ procs' = [procs EXCEPT ![p] = Dead, ![n_procs + 1] = Idle]
    /\ n_procs' = n_procs + 1
    /\ feed' = [feed EXCEPT ![p] = <<>>]
    /\ UNCHANGED <<pc, request_stop, retcode, exit_code, surfaced, pool,
                   pid_to_worker_i, worker_status, results, called, pending, done,
                   queue, evt, put_log, raised>>
    /\ UNCHANGED st_vars
    /\ UNCHANGED eng_vars
    /\ UNCHANGED <<rd_vars, ast_vars, ui_vars>>

\* ------------------------------------------------ ZestRunnerMultiThread.poll
\* map_results.ready(): the call has completed, every work order with it.
MapResultsReady == pool # "none" /\ done = Roots

\* The condition under which poll returns False.
RunComplete_ReadyOnly == MapResultsReady

RunComplete == pool # "none" /\ MapResultsReady /\ queue = <<>>

\* pool.terminate(): every worker process is stopped at once, outstanding
\* work is not completed.
PoolTerminate_Nothing == UNCHANGED <<pool, procs, feed, pending>>

PoolTerminate ==
    /\ pool' = "terminated"
    /\ procs' = [p \in Pids |-> IF procs[p].st = "unborn" THEN Unborn ELSE Dead]
    /\ feed' = [p \in Pids |-> <<>>]
    /\ pending' = <<>>

\* isinstance(zest_result, Exception)
IsErrorSentinel_Never(zr) == FALSE

IsErrorSentinel(zr) == zr.kind = "exc"

\* The worker index of a record's pid: the pid's entry, or for a pid not
\* seen before the number of pids seen so far.
WorkerIndex_Zero(p2w, pid) == IF pid \in DOMAIN p2w THEN p2w[pid] ELSE 0

WorkerIndex(p2w, pid) ==
    IF pid \in DOMAIN p2w THEN p2w[pid] ELSE Cardinality(DOMAIN p2w)

\* An exception leaves poll. The loop around poll catches KeyboardInterrupt
\* only (and main, ZestRunnerErrors), so it ends the process: exit status 1,
\* and the worker processes, daemons of this one, end with it.
Uncaught(exc) ==
    /\ pc' = "crashed"
    /\ surfaced' = exc
    /\ exit_code' = 1
    /\ PoolTerminate

\* One turn of poll's loop with a record to get.
PollGet ==
    /\ pc = "drain"
    /\ queue # <<>>
    /\ queue' = Tail(queue)
    /\ LET zest_result == Head(queue)
           worker_i == WorkerIndex(pid_to_worker_i, zest_result.pid)
           stamped == [zest_result EXCEPT !.worker_i = worker_i]
       IN IF IsErrorSentinel(zest_result)
          THEN \* raise zest_result
               /\ Uncaught(zest_result)
               /\ UNCHANGED <<pid_to_worker_i, worker_status, results, called>>
          ELSE /\ pid_to_worker_i' =
                     [q \in DOMAIN pid_to_worker_i \cup {zest_result.pid} |->
                         IF q = zest_result.pid THEN worker_i ELSE pid_to_worker_i[q]]
               /\ IF worker_i \notin DOMAIN worker_status
                  THEN \* worker_status[worker_i] = ... raises IndexError
                       /\ Uncaught(IndexError(stamped))
                       /\ UNCHANGED <<worker_status, results, called>>
                  ELSE /\ worker_status' = [worker_status EXCEPT ![worker_i] = stamped]
                       /\ results' = IF stamped.is_running THEN results
                                     ELSE Append(results, stamped)
                       /\ called' = Append(called, stamped)
                       /\ UNCHANGED <<pc, surfaced, exit_code, pool,
                                      procs, feed, pending>>
    /\ UNCHANGED <<request_stop, retcode, done,
                   n_procs, evt, put_log, raised>>
    /\ UNCHANGED st_vars
    /\ UNCHANGED eng_vars
    /\ UNCHANGED <<rd_vars, ast_vars, ui_vars>>

\* get_nowait raises Empty: the loop is left.
PollEmpty ==
    /\ pc = "drain"
    /\ queue = <<>>
    /\ pc' = "check"
    /\ UNCHANGED <<request_stop, retcode, exit_code, surfaced, pool,
                   pid_to_worker_i, worker_status, results, called, pending, done,
                   procs, n_procs, feed, queue, evt, put_log, raised>>
    /\ UNCHANGED st_vars
    /\ UNCHANGED eng_vars
    /\ UNCHANGED <<rd_vars, ast_vars, ui_vars>>

\* The test that ends poll: the run is complete (the pool is then joined and
\* False returned), or there is more to do (True).
PollCheck ==
    /\ pc = "check"
    /\ IF RunComplete
       THEN pc' = "join"
       ELSE \* True is returned and the loop calls poll again (a pool that a
            \* stop request terminated stays terminated)
            pc' = "drain"
    /\ UNCHANGED <<request_stop, retcode, exit_code, surfaced, pool,
                   pid_to_worker_i, worker_status, results, called, pending, done,
                   procs, n_procs, feed, queue, evt, put_log, raised>>
    /\ UNCHANGED st_vars
    /\ UNCHANGED eng_vars
    /\ UNCHANGED <<rd_vars, ast_vars, ui_vars>>

\* pool.join() returns once the workers have exited, which they do after
\* their feeder threads have flushed; poll returns False, the loop is left
\* and the process exits with retcode.
PollJoin ==
    /\ pc = "join"
    /\ \A p \in Pids : feed[p] = <<>>
    /\ pc' = "exited"
    /\ exit_code' = retcode
    /\ UNCHANGED <<request_stop, retcode, surfaced, pool,
                   pid_to_worker_i, worker_status, results, called, pending, done,
                   procs, n_procs, feed, queue, evt, put_log, raised>>
    /\ UNCHANGED st_vars
    /\ UNCHANGED eng_vars
    /\ UNCHANGED <<rd_vars, ast_vars, ui_vars>>

\* The loop around poll: a KeyboardInterrupt anywhere in it (it leaves the
\* poll under way) asks for a stop and sets the return code; the loop goes
\* round and calls poll(True), which terminates the pool before it reads
\* the queue. (A further interrupt would only start poll(True) again.)
KeyboardInterrupt ==
    /\ pc \in {"drain", "check", "join"}
    /\ ~request_stop
    /\ request_stop' = TRUE
    /\ retcode' = 1
    /\ IF pool # "none"
       THEN PoolTerminate
       ELSE UNCHANGED <<pool, procs, feed, pending>>
    /\ pc' = "drain"
    /\ UNCHANGED <<exit_code, surfaced,
                   pid_to_worker_i, worker_status, results, called, done,
                   n_procs, queue, evt, put_log, raised>>
    /\ UNCHANGED st_vars
    /\ UNCHANGED eng_vars
    /\ UNCHANGED <<rd_vars, ast_vars, ui_vars>>

\* ------------------------------------------- ZestRunnerSingleThread.__init__
STInit ==
    /\ st_pc = "launch"
    /\ root_i = 1
    /\ call_errors = <<>>
    /\ call_warnings = <<>>

\* The variables of the multi-process run that the single-process runner
\* does not have.
mp_only == <<pc, request_stop, exit_code, surfaced, pool, pid_to_worker_i,
             worker_status, called, pending, done, procs, n_procs, feed,
             queue, put_log, raised>>

\* The loop over root_zests takes the next root: its event stream is opened
\* (and so truncated) and its module loaded.
STLaunch ==
    /\ st_pc = "launch"
    /\ root_i <= NRoots
    /\ evt' = [evt EXCEPT ![root_i] = <<>>]
    /\ st_pc' = "start"
    /\ UNCHANGED <<root_i, call_errors, call_warnings, results, retcode>>
    /\ UNCHANGED mp_only
    /\ UNCHANGED eng_vars
    /\ UNCHANGED <<rd_vars, ast_vars, ui_vars>>

\* event_test_start: display only.
STEventTestStart ==
    /\ st_pc = "start"
    /\ st_pc' = "body"
    /\ UNCHANGED <<root_i, call_errors, call_warnings, results, retcode, evt>>
    /\ UNCHANGED mp_only
    /\ UNCHANGED eng_vars
    /\ UNCHANGED <<rd_vars, ast_vars, ui_vars>>

\* The engine runs the root's body: an exception in the body is caught and
\* recorded in call_errors; a body that declares children and never ends its
\* declaration phase is recorded in call_warnings.
EngineRunsBody ==
    /\ st_pc = "body"
    /\ \E err, warn \in BOOLEAN :
          /\ call_errors' = IF err THEN Append(call_errors, root_i) ELSE call_errors
          /\ call_warnings' = IF warn THEN Append(call_warnings, root_i)
                              ELSE call_warnings
    /\ st_pc' = "stop"
    /\ UNCHANGED <<root_i, results, retcode, evt>>
    /\ UNCHANGED mp_only
    /\ UNCHANGED eng_vars
    /\ UNCHANGED <<rd_vars, ast_vars, ui_vars>>

\* Whether the engine recorded an error for the root under way.
RootHasError == \E i \in 1..Len(call_errors) : call_errors[i] = root_i

\* event_test_stop: the record is emitted to the event stream and appended
\* to results; the loop goes on to the next root.
STEventTestStop ==
    /\ st_pc = "stop"
    /\ LET zest_result == ZestResult(root_i, FALSE, RootHasError, 0)
       IN /\ evt' = [evt EXCEPT ![root_i] = Append(@, zest_result)]
          /\ results' = Append(results, zest_result)
    /\ root_i' = root_i + 1
    /\ st_pc' = "launch"
    /\ UNCHANGED <<call_errors, call_warnings, retcode>>
    /\ UNCHANGED mp_only
    /\ UNCHANGED eng_vars
    /\ UNCHANGED <<rd_vars, ast_vars, ui_vars>>

\* self.retcode = 0 if len(zest._call_errors) == 0 else 1
STRetcode == IF Len(call_errors) = 0 THEN 0 ELSE 1

\* COMPLETE: every root has run; the warnings are displayed and retcode set.
STComplete ==
    /\ st_pc = "launch"
    /\ root_i > NRoots
    /\ retcode' = STRetcode
    /\ st_pc' = "complete"
    /\ UNCHANGED <<root_i, call_errors, call_warnings, results, evt>>
    /\ UNCHANGED mp_only
    /\ UNCHANGED eng_vars
    /\ UNCHANGED <<rd_vars, ast_vars, ui_vars>>

\* ------------------------------------------------------ the engine (zest.do)
\* A node is named by its path: <<r>> is root r, <<r, c>> its child c.
TreeRoots == 1..NTreeRoots

Nodes == {<<r>> : r \in TreeRoots}
           \cup {<<r, c>> : r \in TreeRoots, c \in 1..NChildren}

NumChildren(n) == IF Len(n) = 1 THEN NChildren ELSE 0

\* a is a proper ancestor of n
IsAncestor(a, n) == Len(a) < Len(n) /\ SubSeq(n, 1, Len(a)) = a

NoMarks == [skip_reasons |-> {}, failing |-> {}, unterminated |-> {},
            faulting |-> {}]

\* What a marked node is marked with.
Marks == {"skip", "fail", "unterminated", "fault"}

TreeOf(mark) ==
    [skip_reasons |-> {n \in DOMAIN mark : mark[n] = "skip"},
     failing      |-> {n \in DOMAIN mark : mark[n] = "fail"},
     unterminated |-> {n \in DOMAIN mark : mark[n] = "unterminated"},
     faulting     |-> {n \in DOMAIN mark : mark[n] = "fault"}]

\* The test trees with at most k marked nodes; a node has one mark, and
\* only a node with children can leave its declaration phase open.
MarkedTrees(k) ==
    UNION {{TreeOf(mark) :
              mark \in {f \in [M -> Marks] :
                          \A n \in M : f[n] = "unterminated" => NumChildren(n) > 0}} :
           M \in {S \in SUBSET Nodes : Cardinality(S) <= k}}

Trees == MarkedTrees(MaxMarked)

\* allow_to_run: everything ("__all__"), or the names listed.
AllowAll == [all |-> TRUE, names |-> {}]

AllowOnly(names) == [all |-> FALSE, names |-> names]

\* n and its ancestors: the dot-prefixes of the full name.
Prefixes(n) == {SubSeq(n, 1, i) : i \in 1..Len(n)}

\* The allow lists the engine is run with: everything, one node with its
\* ancestors, one node alone.
AllowLists ==
    {AllowAll} \cup {AllowOnly(Prefixes(n)) : n \in Nodes}
               \cup {AllowOnly({n}) : n \in Nodes}

EngInit(t, bypass, mode, no_shuffle, allow) ==
    /\ tree = t
    /\ bypass_skip = bypass
    /\ eng_mode = mode
    /\ disable_shuffle = no_shuffle
    /\ allow_to_run = allow
    /\ eng_pc = "idle"
    /\ next_root = 1
    /\ frames = <<>>
    /\ call_stack = <<>>
    /\ call_log = <<>>
    /\ invoked = {}
    /\ events = <<>>
    /\ timings = <<>>
    /\ zests = Nodes
    /\ match_string = <<>>

\* What an engine step leaves alone.
eng_frame == <<mp_vars, st_pc, root_i, tree, bypass_skip, eng_mode,
               disable_shuffle, allow_to_run, zests, match_string, rd_vars,
               ast_vars, ui_vars>>

\* zest.reset: a fresh call_stack, call_log, call_errors and call_warnings.
ZestReset ==
    /\ call_stack' = <<>>
    /\ call_log' = <<>>
    /\ call_errors' = <<>>
    /\ call_warnings' = <<>>

\* A node is skipped when it has skip reasons and bypass_skip does not name it.
Skipped_Never(n) == FALSE

Skipped(n) == n \in tree.skip_reasons /\ n \notin bypass_skip

\* A node is filtered when allow_to_run is set and neither the node's full
\* name nor a prefix of it is a member.
Filtered(n) == ~allow_to_run.all /\ Prefixes(n) \cap allow_to_run.names = {}

\* The node's body is not invoked and its children are not entered.
NotRun(n) == Skipped(n) \/ Filtered(n)

\* The skip field of the node's records.
SkipReason(n) ==
    IF Skipped(n) THEN "skip_reasons" ELSE IF Filtered(n) THEN "filtered" ELSE ""

StartRecord(n) ==
    [node |-> n, is_running |-> TRUE, error |-> FALSE, skip |-> NotRun(n),
     reason |-> SkipReason(n)]

StopRecord_NoError(n) ==
    [node |-> n, is_running |-> FALSE, error |-> FALSE, skip |-> NotRun(n),
     reason |-> SkipReason(n)]

StopRecord(n) ==
    [node |-> n, is_running |-> FALSE,
     error |-> (n \in tree.failing /\ n \in invoked), skip |-> NotRun(n),
     reason |-> SkipReason(n)]

\* The engine enters node n: the name is pushed on call_stack and the
\* start record emitted.
EngineEnter(n) ==
    /\ call_stack' = Append(call_stack, n)
    /\ events' = Append(events, StartRecord(n))

\* The engine leaves a node: the name last pushed is popped from call_stack.
CallStackPop_KeepFailed(stack, n) ==
    IF n \in tree.failing THEN stack ELSE SubSeq(stack, 1, Len(stack) - 1)

CallStackPop(stack, n) == SubSeq(stack, 1, Len(stack) - 1)

\* The stop record of the node is handed to the stop callback.
EmitStop_NotWhenSkipped(evs, n) ==
    IF NotRun(n) THEN evs ELSE Append(evs, StopRecord(n))

EmitStop(evs, n) == Append(evs, StopRecord(n))

\* The node's full name is appended to call_log.
CallLogAppend_Twice(log, n) == Append(Append(log, n), n)

CallLogAppend(log, n) == Append(log, n)

\* ZestRunner.event_test_stop: self.timings += [(name, elapsed)], twice.
EventTestStop(tm, n) == Append(Append(tm, n), n)

\* The children the engine may enter next, of those not entered yet: the
\* first declared when shuffling is disabled, any of them otherwise.
SiblingChoices_AlwaysShuffled(left) == left

SiblingChoices(left) ==
    IF disable_shuffle
    THEN {c \in left : \A d \in left : c <= d}
    ELSE left

\* _do_work_order in a pool process, before the root is run: zest.reset.
WorkOrderReset_NoReset ==
    /\ eng_mode = "worker"
    /\ eng_pc \in {"idle", "faulted"}
    /\ next_root <= NTreeRoots
    /\ eng_pc' = "ready"
    /\ UNCHANGED <<call_stack, call_log, call_errors, call_warnings>>
    /\ UNCHANGED <<next_root, frames, invoked, events, timings>>
    /\ UNCHANGED eng_frame

WorkOrderReset ==
    /\ eng_mode = "worker"
    /\ eng_pc \in {"idle", "faulted"}
    /\ next_root <= NTreeRoots
    /\ ZestReset
    /\ eng_pc' = "ready"
    /\ UNCHANGED <<next_root, frames, invoked, events, timings>>
    /\ UNCHANGED eng_frame

\* The call of the engine on a root: nothing of it entered yet.
RootFrame(r) == [node |-> <<r>>, next |-> 0, ran |-> {}]

\* _do_work_order calls zest.do on the root.
WorkOrderDo ==
    /\ eng_mode = "worker"
    /\ eng_pc = "ready"
    /\ frames' = <<RootFrame(next_root)>>
    /\ EngineEnter(<<next_root>>)
    /\ eng_pc' = "run"
    /\ UNCHANGED <<next_root, call_log, call_errors, call_warnings, invoked,
                   timings>>
    /\ UNCHANGED eng_frame

\* ZestRunner.run, one root of its loop: call_stack is asserted empty and
\* zest.do called on the root.
ZestRunnerLaunch ==
    /\ eng_mode = "runner"
    /\ eng_pc = "idle"
    /\ next_root <= NTreeRoots
    /\ IF Len(call_stack) = 0
       THEN /\ frames' = <<RootFrame(next_root)>>
            /\ EngineEnter(<<next_root>>)
            /\ eng_pc' = "run"
       ELSE \* AssertionError
            /\ eng_pc' = "aborted"
            /\ UNCHANGED <<frames, call_stack, events>>
    /\ UNCHANGED <<next_root, call_log, call_errors, call_warnings, invoked,
                   timings>>
    /\ UNCHANGED eng_frame

Top == frames[Len(frames)]

Done == NChildren + 1

\* The node entered last is decided: skipped or filtered, or its body is
\* invoked. A body that fails is recorded in call_errors, one that leaves
\* its declaration phase open in call_warnings, and neither runs children.
EngineBody ==
    /\ eng_pc = "run"
    /\ frames # <<>>
    /\ Top.next = 0
    /\ Top.node \notin tree.faulting \/ NotRun(Top.node)
    /\ LET n == Top.node
           runs_children == /\ ~NotRun(n)
                            /\ n \notin tree.failing
                            /\ n \notin tree.unterminated
       IN /\ frames' = [frames EXCEPT ![Len(frames)].next =
                                         IF runs_children THEN 1 ELSE Done]
          /\ invoked' = IF NotRun(n) THEN invoked ELSE invoked \cup {n}
          /\ call_errors' = IF ~NotRun(n) /\ n \in tree.failing
                            THEN Append(call_errors, n) ELSE call_errors
          /\ call_warnings' = IF ~NotRun(n) /\ n \in tree.unterminated
                              THEN Append(call_warnings, n) ELSE call_warnings
    /\ UNCHANGED <<eng_pc, next_root, call_stack, call_log, events, timings>>
    /\ UNCHANGED eng_frame

\* The body raises what the engine does not trap: the exception leaves
\* zest.do with call_stack as it is. _do_work_order catches it and the
\* process goes on to its next order; it ends ZestRunner.run.
EngineFault ==
    /\ eng_pc = "run"
    /\ frames # <<>>
    /\ Top.next = 0
    /\ Top.node \in tree.faulting /\ ~NotRun(Top.node)
    /\ invoked' = invoked \cup {Top.node}
    /\ frames' = <<>>
    /\ eng_pc' = IF eng_mode = "worker" THEN "faulted" ELSE "aborted"
    /\ next_root' = next_root + 1
    /\ UNCHANGED <<call_stack, call_log, call_errors, call_warnings, events,
                   timings>>
    /\ UNCHANGED eng_frame

\* A child of the node under way that was not entered yet is entered.
EngineChild ==
    /\ eng_pc = "run"
    /\ frames # <<>>
    /\ Top.next \in 1..NumChildren(Top.node)
    /\ \E c \in SiblingChoices((1..NumChildren(Top.node)) \ Top.ran) :
          LET child == Append(Top.node, c)
          IN /\ frames' = Append([frames EXCEPT ![Len(frames)].next = @ + 1,
                                                ![Len(frames)].ran = @ \cup {c}],
                                 [node |-> child, next |-> 0, ran |-> {}])
             /\ EngineEnter(child)
    /\ UNCHANGED <<eng_pc, next_root, call_log, call_errors, call_warnings,
                   invoked, timings>>
    /\ UNCHANGED eng_frame

\* The node under way is left: popped from call_stack, its stop record
\* handed to the stop callback, its name appended to call_log. When it is
\* the root, zest.do returns.
EngineExit ==
    /\ eng_pc = "run"
    /\ frames # <<>>
    /\ Top.next > NumChildren(Top.node)
    /\ call_stack' = CallStackPop(call_stack, Top.node)
    /\ events' = EmitStop(events, Top.node)
    /\ timings' = IF eng_mode = "runner" THEN EventTestStop(timings, Top.node)
                  ELSE timings
    /\ call_log' = CallLogAppend(call_log, Top.node)
    /\ frames' = SubSeq(frames, 1, Len(frames) - 1)
    /\ IF Len(frames) = 1
       THEN eng_pc' = "idle" /\ next_root' = next_root + 1
       ELSE UNCHANGED <<eng_pc, next_root>>
    /\ UNCHANGED <<call_errors, call_warnings, invoked>>
    /\ UNCHANGED eng_frame

\* ------------------------------------------- ZestRunner.run: the discovery
Digit == <<"1", "2", "3", "4", "5", "6", "7", "8", "9">>

\* The characters of a node's full name: root 1 is "z1", its child 2 "z1.i2".
FullName(n) ==
    <<"z", Digit[n[1]]>> \o (IF Len(n) = 1 THEN <<>> ELSE <<".", "i", Digit[n[2]]>>)

\* match_string in full_name
Contains(m, f) ==
    \E i \in 0..(Len(f) - Len(m)) : SubSeq(f, i + 1, i + Len(m)) = m

\* match_string is None or match_string in full_name (None is <<>>)
Matches(m, n) == m = <<>> \/ Contains(m, FullName(n))

\* The loop over the zests found: the parents of every full name that
\* matches, and the name itself, are added to allow_to_run.
AllowToRun_NamesOnly(found, m) == {n \in found : Matches(m, n)}

AllowToRun(found, m) == UNION {Prefixes(n) : n \in {f \in found : Matches(m, f)}}

Alphabet ==
    {"z", "i", "."} \cup {Digit[k] : k \in 1..NTreeRoots} \cup {Digit[k] : k \in 1..NChildren}

\* None, and the strings of at most MaxMatchLen characters.
MatchStrings == UNION {[1..l -> Alphabet] : l \in 0..MaxMatchLen}

\* What recurse_ast may find: some of the roots, each with some children.
ZestSets ==
    UNION {{{<<r>> : r \in R} \cup UNION {{<<r, c>> : c \in kids[r]} : r \in R} :
              kids \in [R -> SUBSET (1..NChildren)]} :
           R \in SUBSET TreeRoots}

\* ZestRunner.run up to the loop that launches the roots: zest.reset, then
\* the zests are found and allow_to_run computed.
ZestRunnerDiscover ==
    /\ eng_mode = "runner"
    /\ eng_pc = "discover"
    /\ ZestReset
    /\ timings' = <<>>
    /\ allow_to_run' = AllowOnly(AllowToRun(zests, match_string))
    /\ eng_pc' = "idle"
    /\ UNCHANGED <<tree, bypass_skip, eng_mode, next_root, frames, invoked,
                   events, disable_shuffle, zests, match_string>>
    /\ UNCHANGED <<mp_vars, st_pc, root_i, rd_vars, ast_vars, ui_vars>>

\* ---------------------------------------------------- read_zest_result_line
\* A line of an event log: a record's line, or a line that is no record's.
Lines ==
    {[ok |-> TRUE, is_running |-> b] : b \in BOOLEAN}
        \cup {[ok |-> FALSE, is_running |-> FALSE]}

Files == UNION {[1..l -> Lines] : l \in 0..MaxLines}

RDInit ==
    /\ fd = <<>>
    /\ fd_pos = 0
    /\ yielded = <<>>
    /\ rd_pc = "reading"

\* One turn of the loop with a line read: the record ZestResult.loads
\* makes of it is yielded; when loads raises, the exception leaves the
\* generator.
ReadLine ==
    /\ rd_pc = "reading"
    /\ fd_pos < Len(fd)
    /\ LET line == fd[fd_pos + 1]
       IN IF line.ok
          THEN /\ yielded' = Append(yielded, line)
               /\ fd_pos' = fd_pos + 1
               /\ UNCHANGED rd_pc
          ELSE /\ rd_pc' = "raised"
               /\ fd_pos' = fd_pos + 1
               /\ UNCHANGED yielded
    /\ UNCHANGED <<fd, mp_vars, st_vars, eng_vars, ast_vars, ui_vars>>

\* readline returns nothing: the loop is left.
ReadEnd ==
    /\ rd_pc = "reading"
    /\ fd_pos = Len(fd)
    /\ rd_pc' = "eof"
    /\ UNCHANGED <<fd, fd_pos, yielded, mp_vars, st_vars, eng_vars, ast_vars,
                   ui_vars>>

\* ------------------------------------------------- ZestRunner.recurse_ast
\* A statement of a parsed body. A FunctionDef carries whether its name
\* makes it a test (zest_... in a module, no leading underscore in a
\* function), whether it has a skip decorator, and its own body; a With
\* carries its body.
Part(kind, test, skip, body) ==
    [kind |-> kind, test |-> test, skip |-> skip, body |-> body]

ZestCall == Part("zest", FALSE, FALSE, <<>>)
OtherStatement == Part("other", FALSE, FALSE, <<>>)
FunctionDef(test, skip, body) == Part("FunctionDef", test, skip, body)
With(body) == Part("With", FALSE, FALSE, body)

\* parent_name of the call on a module body.
NoParent == <<>>

\* The two errors recurse_ast writes.
BeforeAllDefined == "did not call zest() before all functions were defined"
NotTerminated == "did not terminate with a call to zest()"

DefinesTest(part) == part.kind = "FunctionDef" /\ part.test

\* recurse_ast(func_body, parent_name, skips): the errors it writes, those
\* of the calls it makes on the bodies inside first, in the order of the
\* statements. A name is the positions of the definitions that lead to it.
RECURSIVE RecurseAst(_, _, _)
RECURSIVE RecurseAstParts(_, _, _, _)
RecurseAstParts(func_body, parent_name, skips, i) ==
    IF i > Len(func_body)
    THEN <<>>
    ELSE LET part == func_body[i]
             inside ==
                 IF part.kind = "With"
                 THEN RecurseAst(part.body, parent_name, skips)
                 ELSE IF DefinesTest(part)
                      THEN RecurseAst(part.body, Append(parent_name, i),
                                      part.skip)
                      ELSE <<>>
         IN inside \o RecurseAstParts(func_body, parent_name, skips, i + 1)

RecurseAst(func_body, parent_name, skips) ==
    LET idx == 1..Len(func_body)
        n_test_funcs == Cardinality({i \in idx : DefinesTest(func_body[i])})
        found_zest_call == \E i \in idx : func_body[i].kind = "zest"
        found_zest_call_before_final_func_def ==
            \E i \in idx : \E j \in idx :
                /\ i < j
                /\ func_body[i].kind = "zest"
                /\ func_body[j].kind = "FunctionDef"
        own ==
            IF /\ n_test_funcs > 0
               /\ parent_name # NoParent
               /\ ~found_zest_call
               /\ ~skips
            THEN <<[func |-> parent_name,
                    msg |-> IF found_zest_call_before_final_func_def
                            THEN BeforeAllDefined
                            ELSE NotTerminated]>>
            ELSE <<>>
    IN RecurseAstParts(func_body, parent_name, skips, 1) \o own

\* The statements of a zest function's body: calls of zest(), other
\* statements, definitions of tests and of helpers, a with block around
\* one of these, and a test that itself defines a test.
SimpleParts ==
    {ZestCall, OtherStatement, FunctionDef(TRUE, FALSE, <<>>),
     FunctionDef(FALSE, FALSE, <<>>)}

BodyParts ==
    SimpleParts
        \cup {With(<<p>>) : p \in SimpleParts}
        \cup {FunctionDef(TRUE, skip, <<FunctionDef(TRUE, FALSE, <<>>)>>) :
                skip \in BOOLEAN}

FuncBodies == UNION {[1..l -> BodyParts] : l \in 0..MaxParts}

\* A module that defines one root zest.
ModuleBodies ==
    {<<FunctionDef(TRUE, skip, b)>> : skip \in BOOLEAN, b \in FuncBodies}

ASTInit ==
    /\ module_body = <<>>
    /\ reports = <<>>
    /\ n_zest_missing_errors = 0
    /\ ast_pc = "done"

\* zests = self.recurse_ast(module_ast.body, None, None, path, 0)
RecurseAstModule ==
    /\ ast_pc = "parsed"
    /\ LET errors == RecurseAst(module_body, NoParent, FALSE)
       IN /\ reports' = reports \o errors
          /\ n_zest_missing_errors' = n_zest_missing_errors + Len(errors)
    /\ ast_pc' = "done"
    /\ UNCHANGED <<module_body, mp_vars, st_vars, eng_vars, rd_vars, ui_vars>>

\* ------------------------------------------------------------ ZestConsoleUI
\* The UI thread is the loop of ZestConsoleUI.__init__: update_run_state,
\* render, the key pressed if any, sleep. It takes one step per statement
\* that reads or writes what the runner thread or a KeyboardInterrupt may
\* change under it. ui_pc is "update" at the top of the loop, "keys"
\* after update_run_state, "quit" after q, and the name of the exception
\* once one has left the loop.
NO_RUN == "NO_RUN"
RUNNING == "RUNNING"
STOPPING == "STOPPING"
DONE == "DONE"
WATCHING == "WATCHING"

\* The modules found in a zests/ folder: one whose root zest ends with its
\* call of zest(), one whose root zest never calls it.
ScanBodies ==
    {<<FunctionDef(TRUE, FALSE, <<FunctionDef(TRUE, FALSE, <<>>), ZestCall>>)>>,
     <<FunctionDef(TRUE, FALSE, <<FunctionDef(TRUE, FALSE, <<>>)>>)>>}

UIInit ==
    /\ ui_pc = "update"
    /\ run_state = NO_RUN
    /\ request_run = "*"
    /\ request_auto_run = FALSE
    /\ show_error = FALSE
    /\ stop_requested = FALSE
    /\ runner_thread = "None"
    /\ thread = "none"
    /\ n_errors = 0
    /\ seen_not_none = FALSE
    /\ run_pc = "none"
    /\ dirs_left = 0
    /\ root_zest_funcs = 0
    /\ has_run = 0
    /\ run_errors = 0
    /\ run_retcode = -1
    /\ scan_missing = 0
    /\ stop_seen = FALSE

ui_frame == <<mp_vars, st_vars, eng_vars, rd_vars, ast_vars>>
ast_frame == <<module_body, reports, ast_pc>>

\* update_run_state in NO_RUN: with a request, runner_thread_start is called.
UpdateNoRun ==
    /\ ui_pc = "update"
    /\ run_state = NO_RUN
    /\ ui_pc' = IF request_run # "None" THEN "start_reset" ELSE "keys"
    /\ UNCHANGED <<run_state, request_run, request_auto_run, show_error,
                   stop_requested, runner_thread, thread, n_errors,
                   seen_not_none, run_only, ui_frame>>

\* runner_thread_start: errors = [] ... stop_requested = False
RunnerThreadStartReset ==
    /\ ui_pc = "start_reset"
    /\ n_errors' = 0
    /\ stop_requested' = FALSE
    /\ ui_pc' = "start_assert"
    /\ UNCHANGED <<run_state, request_run, request_auto_run, show_error,
                   runner_thread, thread, seen_not_none, run_only, ui_frame>>

\* runner_thread_start: assert self.runner_thread is None
RunnerThreadStartAssert ==
    /\ ui_pc = "start_assert"
    /\ ui_pc' = IF runner_thread = "None" THEN "start_make"
                ELSE "AssertionError"
    /\ UNCHANGED <<run_state, request_run, request_auto_run, show_error,
                   stop_requested, runner_thread, thread, n_errors,
                   seen_not_none, run_only, ui_frame>>

\* runner_thread_start: self.runner_thread = threading.Thread(...)
RunnerThreadStartMake ==
    /\ ui_pc = "start_make"
    /\ runner_thread' = "Thread"
    /\ thread' = "new"
    /\ ui_pc' = "start_start"
    /\ UNCHANGED <<run_state, request_run, request_auto_run, show_error,
                   stop_requested, n_errors, seen_not_none, run_only,
                   ui_frame>>

\* runner_thread_start: self.runner_thread.start(). The thread enters
\* runner_thread_fn and ZestRunner.run, up to the loop over walk().
RunnerThreadStartStart ==
    /\ ui_pc = "start_start"
    /\ thread' = "alive"
    /\ run_pc' = "walk"
    /\ dirs_left' = NDirs
    /\ root_zest_funcs' = 0
    /\ has_run' = 0
    /\ run_errors' = 0
    /\ scan_missing' = 0
    /\ stop_seen' = FALSE
    /\ ui_pc' = "set_running"
    /\ UNCHANGED <<run_state, request_run, request_auto_run, show_error,
                   stop_requested, runner_thread, n_errors, seen_not_none,
                   run_retcode, ui_frame>>

\* update_run_state in NO_RUN: show_error = None; run_state = RUNNING
UpdateSetRunning ==
    /\ ui_pc = "set_running"
    /\ show_error' = FALSE
    /\ run_state' = RUNNING
    /\ ui_pc' = "clear_request"
    /\ UNCHANGED <<request_run, request_auto_run, stop_requested,
                   runner_thread, thread, n_errors, seen_not_none, run_only,
                   ui_frame>>

\* update_run_state in NO_RUN: request_run = None
UpdateClearRequest ==
    /\ ui_pc = "clear_request"
    /\ request_run' = "None"
    /\ ui_pc' = "keys"
    /\ UNCHANGED <<run_state, request_auto_run, show_error, stop_requested,
                   runner_thread, thread, n_errors, seen_not_none, run_only,
                   ui_frame>>

\* What update_run_state does in RUNNING and STOPPING once
\* runner_thread_is_running has returned.
AfterIsRunning(is_running) ==
    IF run_state = RUNNING
    THEN IF ~is_running
         THEN /\ run_state' = DONE
              /\ ui_pc' = "keys"
              /\ UNCHANGED stop_requested
         ELSE IF request_run # "None"
              THEN /\ stop_requested' = TRUE
                   /\ ui_pc' = "set_stopping"
                   /\ UNCHANGED run_state
              ELSE /\ ui_pc' = "keys"
                   /\ UNCHANGED <<run_state, stop_requested>>
    ELSE /\ run_state' = IF ~is_running THEN NO_RUN ELSE run_state
         /\ ui_pc' = "keys"
         /\ UNCHANGED stop_requested

\* runner_thread_is_running: self.runner_thread is not None
IsRunningNotNone ==
    /\ ui_pc = "update"
    /\ run_state \in {RUNNING, STOPPING}
    /\ IF runner_thread = "None"
       THEN /\ AfterIsRunning(FALSE)
            /\ UNCHANGED seen_not_none
       ELSE /\ seen_not_none' = TRUE
            /\ ui_pc' = "is_alive"
            /\ UNCHANGED <<run_state, stop_requested>>
    /\ UNCHANGED <<request_run, request_auto_run, show_error, runner_thread,
                   thread, n_errors, run_only, ui_frame>>

\* runner_thread_is_running: self.runner_thread.is_alive(), on what
\* self.runner_thread is by now.
IsRunningIsAlive ==
    /\ ui_pc = "is_alive"
    /\ seen_not_none' = FALSE
    /\ IF runner_thread = "None"
       THEN /\ ui_pc' = "AttributeError"
            /\ UNCHANGED <<run_state, stop_requested>>
       ELSE AfterIsRunning(thread = "alive")
    /\ UNCHANGED <<request_run, request_auto_run, show_error, runner_thread,
                   thread, n_errors, run_only, ui_frame>>

\* update_run_state in RUNNING: run_state = STOPPING
UpdateSetStopping ==
    /\ ui_pc = "set_stopping"
    /\ run_state' = STOPPING
    /\ ui_pc' = "keys"
    /\ UNCHANGED <<request_run, request_auto_run, show_error, stop_requested,
                   runner_thread, thread, n_errors, seen_not_none, run_only,
                   ui_frame>>

\* update_run_state in DONE: if self.request_run is not None
UpdateDoneRequest ==
    /\ ui_pc = "update"
    /\ run_state = DONE
    /\ run_state' = IF request_run # "None" THEN NO_RUN ELSE run_state
    /\ ui_pc' = "done_auto"
    /\ UNCHANGED <<request_run, request_auto_run, show_error, stop_requested,
                   runner_thread, thread, n_errors, seen_not_none, run_only,
                   ui_frame>>

\* update_run_state in DONE: if self.request_auto_run is not None
UpdateDoneAuto ==
    /\ ui_pc = "done_auto"
    /\ run_state' = IF request_auto_run THEN WATCHING ELSE run_state
    /\ ui_pc' = "keys"
    /\ UNCHANGED <<request_run, request_auto_run, show_error, stop_requested,
                   runner_thread, thread, n_errors, seen_not_none, run_only,
                   ui_frame>>

\* update_run_state in WATCHING, the watched file changed or not:
\* self.request_run = ".".join(self.request_auto_run[2])
UpdateWatching ==
    /\ ui_pc = "update"
    /\ run_state = WATCHING
    /\ \E changed \in BOOLEAN :
          IF changed
          THEN /\ request_run' = "auto"
               /\ ui_pc' = "watch_state"
          ELSE /\ ui_pc' = "keys"
               /\ UNCHANGED request_run
    /\ UNCHANGED <<run_state, request_auto_run, show_error, stop_requested,
                   runner_thread, thread, n_errors, seen_not_none, run_only,
                   ui_frame>>

\* update_run_state in WATCHING: self.run_state = self.NO_RUN
UpdateWatchingState ==
    /\ ui_pc = "watch_state"
    /\ run_state' = NO_RUN
    /\ ui_pc' = "watch_clear"
    /\ UNCHANGED <<request_run, request_auto_run, show_error, stop_requested,
                   runner_thread, thread, n_errors, seen_not_none, run_only,
                   ui_frame>>

\* update_run_state in WATCHING: self.request_auto_run = None
UpdateWatchingClear ==
    /\ ui_pc = "watch_clear"
    /\ request_auto_run' = FALSE
    /\ ui_pc' = "keys"
    /\ UNCHANGED <<run_state, request_run, show_error, stop_requested,
                   runner_thread, thread, n_errors, seen_not_none, run_only,
                   ui_frame>>

Keys == {"none", "1", "q", "r", "a"}

\* render, the key that is pressed if one is, and the sleep.
UIKey ==
    /\ ui_pc = "keys"
    /\ \E key \in Keys :
          /\ show_error' = IF key = "1" /\ n_errors > 0 THEN TRUE
                           ELSE show_error
          /\ request_run' = IF key = "r" THEN "*" ELSE request_run
          /\ request_auto_run' = IF key = "a" /\ show_error THEN TRUE
                                 ELSE request_auto_run
          /\ ui_pc' = IF key = "q" THEN "quit"
                      ELSE IF key = "a" /\ show_error THEN "key_a"
                      ELSE "update"
    /\ UNCHANGED <<run_state, stop_requested, runner_thread, thread,
                   n_errors, seen_not_none, run_only, ui_frame>>

\* The key a: self.show_error = None
UIKeyAutoRun ==
    /\ ui_pc = "key_a"
    /\ show_error' = FALSE
    /\ ui_pc' = "update"
    /\ UNCHANGED <<run_state, request_run, request_auto_run, stop_requested,
                   runner_thread, thread, n_errors, seen_not_none, run_only,
                   ui_frame>>

\* Ctrl-C: KeyboardInterrupt is raised in the UI thread wherever it is,
\* and the handler of the loop sets stop_requested.
UIKeyboardInterrupt ==
    /\ ui_pc \notin {"quit", "AssertionError", "AttributeError"}
    /\ stop_requested' = TRUE
    /\ seen_not_none' = FALSE
    /\ ui_pc' = "update"
    /\ UNCHANGED <<run_state, request_run, request_auto_run, show_error,
                   runner_thread, thread, n_errors, run_only, ui_frame>>

\* ---- the runner thread: ZestRunner.run
\* One turn of the loop over walk(): event_stop_requested() is asked, then
\* the folder's module is parsed and recurse_ast called on it.
ZestRunnerWalk ==
    /\ run_pc = "walk"
    /\ IF dirs_left = 0
       THEN /\ run_pc' = "launch"
            /\ UNCHANGED <<stop_seen, dirs_left, root_zest_funcs,
                           scan_missing, n_zest_missing_errors>>
       ELSE IF stop_requested
            THEN /\ stop_seen' = TRUE
                 /\ run_pc' = "launch"
                 /\ UNCHANGED <<dirs_left, root_zest_funcs, scan_missing,
                                n_zest_missing_errors>>
            ELSE \E body \in ScanBodies :
                    LET errors == RecurseAst(body, NoParent, FALSE)
                    IN /\ n_zest_missing_errors + Len(errors) <= MaxMissing
                       /\ n_zest_missing_errors' =
                              n_zest_missing_errors + Len(errors)
                       /\ scan_missing' = scan_missing + Len(errors)
                       /\ dirs_left' = dirs_left - 1
                       /\ root_zest_funcs' = root_zest_funcs + 1
                       /\ UNCHANGED <<run_pc, stop_seen>>
    /\ UNCHANGED <<ui_only, has_run, run_errors, run_retcode, ast_frame,
                   mp_vars, st_vars, eng_vars, rd_vars>>

\* One turn of the loop over root_zest_funcs: event_stop_requested() is
\* asked, then zest.do is called on the root.
ZestRunnerLaunchRoot ==
    /\ run_pc = "launch"
    /\ IF has_run = root_zest_funcs
       THEN /\ run_pc' = "complete"
            /\ UNCHANGED <<stop_seen, has_run>>
       ELSE IF stop_requested
            THEN /\ stop_seen' = TRUE
                 /\ run_pc' = "complete"
                 /\ UNCHANGED has_run
            ELSE /\ has_run' = has_run + 1
                 /\ run_pc' = "root"
                 /\ UNCHANGED stop_seen
    /\ UNCHANGED <<ui_only, dirs_left, root_zest_funcs, run_errors,
                   run_retcode, scan_missing, ui_frame>>

\* zest.do returns: the root has passed or failed (event_test_stop of
\* ZestConsoleUI counts the error).
ZestRunnerRootDone ==
    /\ run_pc = "root"
    /\ \E failed \in BOOLEAN :
          /\ run_errors' = IF failed THEN run_errors + 1 ELSE run_errors
          /\ n_errors' = IF failed THEN n_errors + 1 ELSE n_errors
    /\ run_pc' = "launch"
    /\ UNCHANGED <<ui_pc, run_state, request_run, request_auto_run,
                   show_error, stop_requested, runner_thread, thread,
                   seen_not_none, dirs_left, root_zest_funcs, has_run,
                   run_retcode, scan_missing, stop_seen, ui_frame>>

\* self.retcode = 0 if len(zest._call_errors) == 0 and
\* ZestRunner.n_zest_missing_errors == 0 and not self.event_stop_requested()
\* else 1
Retcode(errors, missing, stop) ==
    IF errors = 0 /\ missing = 0 /\ ~stop THEN 0 ELSE 1

\* The end of ZestRunner.run: event_complete, and retcode is set.
ZestRunnerComplete ==
    /\ run_pc = "complete"
    /\ run_retcode' = Retcode(run_errors, n_zest_missing_errors, stop_requested)
    /\ stop_seen' = (stop_seen \/ (run_errors = 0 /\ n_zest_missing_errors = 0
                                    /\ stop_requested))
    /\ run_pc' = "finally"
    /\ UNCHANGED <<ui_only, dirs_left, root_zest_funcs, has_run, run_errors,
                   scan_missing, ui_frame>>

\* runner_thread_fn: finally: self.runner_thread = None
RunnerThreadFinally ==
    /\ run_pc = "finally"
    /\ runner_thread' = "None"
    /\ run_pc' = "exiting"
    /\ UNCHANGED <<ui_pc, run_state, request_run, request_auto_run,
                   show_error, stop_requested, thread, n_errors,
                   seen_not_none, dirs_left, root_zest_funcs, has_run,
                   run_errors, run_retcode, scan_missing, stop_seen, ui_frame>>

\* runner_thread_fn has returned: the thread is no longer alive.
RunnerThreadExit ==
    /\ run_pc = "exiting"
    /\ thread = "alive"
    /\ thread' = "ended"
    /\ run_pc' = "ended"
    /\ UNCHANGED <<ui_pc, run_state, request_run, request_auto_run,
                   show_error, stop_requested, runner_thread, n_errors,
                   seen_not_none, dirs_left, root_zest_funcs, has_run,
                   run_errors, run_retcode, scan_missing, stop_seen, ui_frame>>

\* ------------------------------------------------------------ specification
Init ==
    /\ MPInit
    /\ STInit
    /\ RDInit
    /\ ASTInit
    /\ UIInit
    /\ EngInit(NoMarks, {}, "worker", FALSE, AllowAll)

\* A multi-process run from the command line.
Next ==
    \/ Run
    \/ \E p \in Pids : DoWorkOrderSetup(p)
    \/ \E p \in Pids : DoWorkOrderLoadFault(p)
    \/ \E p \in Pids : EventCallback(p)
    \/ \E p \in Pids : DoWorkOrderEngineFault(p)
    \/ \E p \in Pids : DoWorkOrderReturn(p)
    \/ \E p \in Pids : QueueFeed(p)
    \/ \E p \in Pids : WorkerDies(p)
    \/ PollGet
    \/ PollEmpty
    \/ PollCheck
    \/ PollJoin
    \/ KeyboardInterrupt

Spec == Init /\ [][Next]_vars

\* A multi-process run in which no stop is requested, no exception leaves
\* the engine or the module loader, and no worker process is killed. The
\* worker processes, their feeder threads and the polling loop all keep
\* running.
NextQuiet ==
    \/ Run
    \/ \E p \in Pids : DoWorkOrderSetup(p)
    \/ \E p \in Pids : EventCallback(p)
    \/ \E p \in Pids : DoWorkOrderReturn(p)
    \/ \E p \in Pids : QueueFeed(p)
    \/ PollGet
    \/ PollEmpty
    \/ PollCheck
    \/ PollJoin

FairQuiet ==
    /\ WF_vars(Run)
    /\ \A p \in Pids : WF_vars(DoWorkOrderSetup(p))
    /\ \A p \in Pids : WF_vars(EventCallback(p))
    /\ \A p \in Pids : WF_vars(DoWorkOrderReturn(p))
    /\ \A p \in Pids : WF_vars(QueueFeed(p))
    /\ WF_vars(PollGet)
    /\ WF_vars(PollEmpty)
    /\ WF_vars(PollCheck)
    /\ WF_vars(PollJoin)

SpecQuiet == Init /\ [][NextQuiet]_vars /\ FairQuiet

\* A single-process run.
NextSingle ==
    \/ STLaunch
    \/ STEventTestStart
    \/ EngineRunsBody
    \/ STEventTestStop
    \/ STComplete

SpecSingle == Init /\ [][NextSingle]_vars

\* The inputs of the engine: a test tree and what is set to run of it. A
\* tree has at most MaxMarked marked nodes, an allow list that filters
\* counting as one.
EngineInputs ==
    {[tree |-> t, allow |-> AllowAll] : t \in Trees}
        \cup {[tree |-> t, allow |-> a] :
                t \in MarkedTrees(MaxMarked - 1), a \in AllowLists \ {AllowAll}}

\* The engine run on the roots of a test tree, one after the other in one
\* process, by a pool worker or by ZestRunner.run.
InitEngine ==
    /\ MPInit
    /\ STInit
    /\ RDInit
    /\ ASTInit
    /\ UIInit
    /\ \E input \in EngineInputs : \E bypass \in SUBSET input.tree.skip_reasons :
       \E mode \in {"worker", "runner"} : \E no_shuffle \in BOOLEAN :
          EngInit(input.tree, bypass, mode, no_shuffle, input.allow)

NextEngine ==
    \/ WorkOrderReset
    \/ WorkOrderDo
    \/ ZestRunnerLaunch
    \/ EngineBody
    \/ EngineFault
    \/ EngineChild
    \/ EngineExit

SpecEngine == InitEngine /\ [][NextEngine]_vars

\* The discovery of ZestRunner.run on what recurse_ast finds and a
\* match_string.
InitDiscover ==
    /\ MPInit
    /\ STInit
    /\ RDInit
    /\ ASTInit
    /\ UIInit
    /\ tree = NoMarks
    /\ bypass_skip = {}
    /\ eng_mode = "runner"
    /\ disable_shuffle \in BOOLEAN
    /\ allow_to_run = AllowAll
    /\ eng_pc = "discover"
    /\ next_root = 1
    /\ frames = <<>>
    /\ call_stack = <<>>
    /\ call_log = <<>>
    /\ invoked = {}
    /\ events = <<>>
    /\ timings = <<>>
    /\ zests \in ZestSets
    /\ match_string \in MatchStrings

NextDiscover == ZestRunnerDiscover

SpecDiscover == InitDiscover /\ [][NextDiscover]_vars

\* An event log read back.
InitReader ==
    /\ MPInit
    /\ STInit
    /\ ASTInit
    /\ UIInit
    /\ EngInit(NoMarks, {}, "worker", FALSE, AllowAll)
    /\ fd \in Files
    /\ fd_pos = 0
    /\ yielded = <<>>
    /\ rd_pc = "reading"

NextReader == ReadLine \/ ReadEnd

SpecReader == InitReader /\ [][NextReader]_vars

\* recurse_ast called on the body of a module that has just been parsed.
InitAst ==
    /\ MPInit
    /\ STInit
    /\ RDInit
    /\ UIInit
    /\ EngInit(NoMarks, {}, "worker", FALSE, AllowAll)
    /\ module_body \in ModuleBodies
    /\ reports = <<>>
    /\ n_zest_missing_errors = 0
    /\ ast_pc = "parsed"

NextAst == RecurseAstModule

SpecAst == InitAst /\ [][NextAst]_vars

\* The console UI: the UI thread, the runner thread it starts, the keys
\* pressed and Ctrl-C.
UIThread ==
    \/ UpdateNoRun
    \/ RunnerThreadStartReset
    \/ RunnerThreadStartAssert
    \/ RunnerThreadStartMake
    \/ RunnerThreadStartStart
    \/ UpdateSetRunning
    \/ UpdateClearRequest
    \/ IsRunningNotNone
    \/ IsRunningIsAlive
    \/ UpdateSetStopping
    \/ UpdateDoneRequest
    \/ UpdateDoneAuto
    \/ UpdateWatching
    \/ UpdateWatchingState
    \/ UpdateWatchingClear
    \/ UIKey
    \/ UIKeyAutoRun

RunnerThread ==
    \/ ZestRunnerWalk
    \/ ZestRunnerLaunchRoot
    \/ ZestRunnerRootDone
    \/ ZestRunnerComplete
    \/ RunnerThreadFinally
    \/ RunnerThreadExit

NextUI ==
    \/ UIThread
    \/ RunnerThread
    \/ UIKeyboardInterrupt

\* Both threads keep running: the UI thread goes round its loop, and the
\* runner thread goes on to the end of its run. No key and no Ctrl-C has
\* to come.
FairUI == WF_vars(UIThread) /\ WF_vars(RunnerThread)

SpecUI == Init /\ [][NextUI]_vars /\ FairUI

\* ------------------------------------------------------------------ claims
\* A record as the worker put it (without the coordinator's worker_i).
Unstamped(z) == [z EXCEPT !.worker_i = -1]

Called == {Unstamped(called[i]) : i \in 1..Len(called)}

Results == {Unstamped(results[i]) : i \in 1..Len(results)}

\* A step in which poll's closing test is made and poll ends.
PollEnds == pc = "check" /\ pc' # "check" /\ request_stop' = request_stop

\* C1: poll reports the run complete (returns False) only when the pool's
\* all-work-orders-finished signal is true and the result queue is empty at
\* its closing test; in every other state that test makes it return True.
C1_PollReturnsFalseIffReadyAndEmpty ==
    [][PollEnds =>
         /\ pc' \in {"join", "drain"}
         /\ (pc' = "join") <=> (pool # "none" /\ done = Roots /\ queue = <<>>)]_vars

\* poll has returned False after stop records went through it.
C1_Witness == pc = "exited" /\ results # <<>>

\* C2: when poll returns False (in a run that was not asked to stop), every
\* record any worker put on the result queue has been dequeued and passed to
\* the callback, and every stop record is in results.
C2_NoRecordLostAtCompletion ==
    (pc = "exited" /\ ~request_stop) =>
        \A z \in put_log :
            /\ z \in Called
            /\ (~z.is_running => z \in Results)

\* C3: after a stop request, once the pool is terminated and no worker is
\* alive (and nothing is left in the queue), poll returns False.
C3_TerminatedPollReturnsFalse ==
    [][(PollEnds /\ pool = "terminated" /\ queue = <<>>
          /\ \A p \in Pids : procs[p].st \in {"unborn", "dead"})
       => pc' = "join"]_vars

\* C4: when the coordinator dequeues an error sentinel it fails the run and
\* surfaces that error: the process ends at once, with exit status 1 and
\* the sentinel as the exception raised; it does not go on waiting.
C4_SentinelFailsTheRun ==
    [][(queue # <<>> /\ Head(queue).kind = "exc" /\ queue' = Tail(queue))
       => (pc' = "crashed" /\ exit_code' = 1 /\ surfaced' = Head(queue))]_vars

C4_Witness == pc = "crashed" /\ surfaced.kind = "exc" /\ exit_code = 1

\* C5: after the coordinator has received a worker's error sentinel it goes
\* on polling, so the stop records of the other workers still reach results.
C5_FaultAbortsOnlyItsWorker ==
    surfaced.kind = "exc" =>
        /\ pc # "crashed"
        /\ \A z \in put_log :
              (z.kind = "result" /\ ~z.is_running /\ z.pid # surfaced.pid
                 /\ pc = "exited") => z \in Results

\* C6: every exception that escapes while a worker processes a work order,
\* one raised while the root's module is loaded included, is put on the
\* result queue as an error sentinel.
C6_EveryFaultIsEnqueued ==
    \A f \in raised : ErrorSentinel(f.root, f.pid) \in put_log

\* C7: the return code of a run that was not asked to stop is non-zero
\* when a stop record carried a test-body error or a framework-level fault
\* occurred, and zero otherwise.
C7_ReturnCodeReflectsFailures ==
    (pc = "exited" /\ ~request_stop) =>
        (exit_code # 0 <=> ((\E z \in Results : z.error) \/ raised # {}))

\* C8: when the single-process run is complete, retcode is 0 exactly when
\* call_errors is empty and no structural-authoring warning was recorded.
C8_RetcodeZeroIffNoErrorsNoWarnings ==
    st_pc = "complete" =>
        (retcode = 0 <=> (call_errors = <<>> /\ call_warnings = <<>>))

\* C11: for every result record poll dequeues, worker_status at the
\* record's assigned index becomes that record, the record is appended to
\* results exactly when it is a stop record, and the callback is called
\* once with it.
C11_EveryDequeuedRecordIsProcessed ==
    [][(queue # <<>> /\ Head(queue).kind = "result" /\ queue' = Tail(queue)) =>
         LET zest_result == Head(queue) IN
           /\ zest_result.pid \in DOMAIN pid_to_worker_i'
           /\ LET worker_i == pid_to_worker_i'[zest_result.pid]
                  stamped == [zest_result EXCEPT !.worker_i = worker_i]
              IN /\ worker_i \in DOMAIN worker_status'
                 /\ worker_status'[worker_i] = stamped
                 /\ results' = IF zest_result.is_running THEN results
                               ELSE Append(results, stamped)
                 /\ called' = Append(called, stamped)]_vars

\* C12: once a stop was requested the pool is terminated and the return
\* code is 1; the process, if it has ended, ended with status 1.
C12_StopTerminatesPoolAndFails ==
    request_stop =>
        /\ pool = "terminated"
        /\ \A p \in Pids : procs[p].st \in {"unborn", "dead"}
        /\ retcode = 1
        /\ exit_code \in {-1, 1}

\* A run in which every test passed and every record was processed, that
\* was asked to stop and has ended.
C12_Witness ==
    /\ request_stop
    /\ pc = "exited"
    /\ exit_code = 1
    /\ raised = {}
    /\ Len(results) = NRoots
    /\ \A i \in 1..Len(results) : ~results[i].error

\* C13: every result record a worker has put on the queue for a root is
\* in that root's event log.
C13_EnqueuedRecordsAreLogged ==
    \A z \in put_log : z.kind = "result" => z \in Range(evt[z.root])

\* A root whose work order was taken by a process that has been killed.
Orphaned(r) ==
    /\ pool # "none"
    /\ r \notin done
    /\ r \notin Range(pending)
    /\ \A p \in Pids : procs[p].root # r

\* C14: the event log of a root holds whole records of that root only, in
\* the order they were emitted; killing the worker that writes it leaves
\* the lines written so far as they are, then and afterwards.
C14_KilledWorkerLeavesWholeLines ==
    /\ [](\A r \in Roots :
            /\ Len(evt[r]) <= ScriptLen
            /\ \A i \in 1..Len(evt[r]) :
                  evt[r][i].kind = "result" /\ evt[r][i].root = r
            /\ \A i, j \in 1..Len(evt[r]) :
                  i < j => (evt[r][i].is_running /\ ~evt[r][j].is_running))
    /\ [][\A r \in Roots : Orphaned(r)' => evt'[r] = evt[r]]_vars

\* A worker was killed (the pool was not terminated) after it wrote one of
\* the two lines of its root.
C14_Witness ==
    /\ pool = "closed"
    /\ \E r \in Roots : Orphaned(r) /\ Len(evt[r]) = 1

\* The names in the engine's accounting.
RunStateNames ==
    Range(call_stack) \cup Range(call_log) \cup Range(call_errors)
        \cup Range(call_warnings)

\* C15: a work order starts from a fresh RunState: right after the reset
\* call_stack, call_log, call_errors and call_warnings are empty, and while
\* a pool process runs an order they hold names of that order's root only.
C15_WorkOrderStartsFresh ==
    (eng_mode = "worker" /\ eng_pc \in {"ready", "run"}) =>
        /\ eng_pc = "ready" => RunStateNames = {}
        /\ \A n \in RunStateNames : n[1] = next_root

\* A pool process is about to run its second order, after a first order
\* that left an error in call_errors.
C15_Witness ==
    /\ eng_mode = "worker"
    /\ eng_pc = "ready"
    /\ next_root = 2
    /\ \E i \in 1..Len(events) : events[i].error /\ events[i].node[1] = 1

\* C16: the lines of one event log all come from one process, no two
\* processes run the same root, and a line is only ever added to a log by
\* the worker that runs that root's work order (the coordinator adds none).
C16_EventLogsAreSingleWriter ==
    /\ [](/\ \A r \in Roots : \A i, j \in 1..Len(evt[r]) :
                 evt[r][i].pid = evt[r][j].pid
           /\ \A p, q \in Pids :
                 (procs[p].st = "run" /\ procs[q].st = "run"
                    /\ procs[p].root = procs[q].root) => p = q)
    /\ [][\A r \in Roots :
             (evt'[r] # evt[r] /\ evt'[r] # <<>>) =>
                /\ pc' = pc
                /\ \E p \in Pids :
                      /\ procs[p].st = "run" /\ procs[p].root = r
                      /\ Len(evt'[r]) = Len(evt[r]) + 1
                      /\ evt'[r][Len(evt'[r])].pid = p]_vars

\* Some event log holds both records of its root.
C16_Witness == \E r \in Roots : Len(evt[r]) = ScriptLen

\* The pool processes that are running a work order.
Running == {p \in Pids : procs[p].st = "run"}

\* C17 (as stated): in a run of three roots on two workers in which no
\* worker died, nothing was raised, no test failed and every record was
\* processed, exactly two pids are bound, to slots 0 and 1.
C17_ExactlyTwoPidsBound ==
    (/\ pc = "exited" /\ ~request_stop
     /\ NIncidents = 0
     /\ \A z \in put_log : z \in Called)
    => /\ Cardinality(DOMAIN pid_to_worker_i) = NWorkers
       /\ {pid_to_worker_i[p] : p \in DOMAIN pid_to_worker_i} = 0..(NWorkers - 1)

\* C17 (amended): never more than n_workers work orders run at once, so a
\* further order starts only when a worker has finished its order or has
\* died; the pids bound to slots are pids of processes the pool started,
\* bound to slots 0, 1, ... without a gap (one worker may run every order,
\* and then one pid is bound).
C17_AtMostWOrdersAtOnce ==
    /\ Cardinality(Running) <= NWorkers
    /\ DOMAIN pid_to_worker_i \subseteq 1..n_procs
    /\ {pid_to_worker_i[p] : p \in DOMAIN pid_to_worker_i}
          = 0..(Cardinality(DOMAIN pid_to_worker_i) - 1)

\* The last work order runs, one of the first two is finished and the
\* other still runs.
C17_Witness ==
    /\ Cardinality(done) = 1
    /\ Cardinality(Running) = NWorkers
    /\ pending = <<>>
    /\ Cardinality(DOMAIN pid_to_worker_i) = NWorkers

\* C18: when the single-process run is complete, the start record and the
\* stop record of every root are in the root's event log and in results.
C18_EveryRecordIsForwarded ==
    st_pc = "complete" =>
        \A r \in Roots : \A is_running \in BOOLEAN :
            /\ \E i \in 1..Len(evt[r]) :
                  evt[r][i].root = r /\ evt[r][i].is_running = is_running
            /\ \E i \in 1..Len(results) :
                  results[i].root = r /\ results[i].is_running = is_running

\* C19: call_stack is empty when zest.do is called on a root and when
\* that call returns.
C19_CallStackEmptyAroundRoots ==
    [][/\ (eng_pc # "run" /\ eng_pc' = "run") => call_stack = <<>>
       /\ (eng_pc = "run" /\ eng_pc' = "idle") => call_stack' = <<>>]_vars

\* ZestRunner.run has launched its second root after a first root with a
\* failing node and a skipped node.
C19_Witness ==
    /\ eng_mode = "runner"
    /\ eng_pc = "run"
    /\ next_root = 2
    /\ \E i \in 1..Len(events) : events[i].error
    /\ \E i \in 1..Len(events) : events[i].skip

\* C20: no start record is emitted for a descendant of a node that has
\* skip reasons and is not named in bypass_skip, and the body of such a
\* node is not invoked.
C20_SkippedSubtreeNeverRuns ==
    /\ \A i \in 1..Len(events) : \A a \in tree.skip_reasons \ bypass_skip :
          ~(events[i].is_running /\ IsAncestor(a, events[i].node))
    /\ invoked \cap (tree.skip_reasons \ bypass_skip) = {}

\* A skipped root has been left, and a root whose skip reasons are
\* bypassed has had its body invoked.
C20_Witness ==
    /\ \E i \in 1..Len(events) :
          events[i].skip /\ ~events[i].is_running /\ Len(events[i].node) = 1
    /\ \E n \in invoked : n \in tree.skip_reasons /\ Len(n) = 1

\* The places in events of the node's start records, and of its stop records.
StartsOf(n) == {i \in 1..Len(events) : events[i].node = n /\ events[i].is_running}

StopsOf(n) == {i \in 1..Len(events) : events[i].node = n /\ ~events[i].is_running}

\* The nodes the engine has entered and not left.
UnderWay == {frames[i].node : i \in 1..Len(frames)}

\* The nodes under way when an exception the engine does not trap left
\* zest.do: the node whose body raised it, and that node's ancestors.
CutByFault(n) == \E f \in invoked \cap tree.faulting : n \in Prefixes(f)

\* No root is left to run, or ZestRunner.run was ended by an exception.
RunOver ==
    \/ eng_pc = "aborted"
    \/ next_root > NTreeRoots /\ eng_pc \in {"idle", "faulted"}

\* C21: a node has at most one start record and at most one stop record,
\* the stop after the start; a node entered has its start record, and only
\* a node still under way (or under way when an exception left the engine)
\* lacks its stop record; the records of a child lie between the start and
\* the stop of its parent; and the step that emits a node's stop record
\* appends the node's name to call_log.
C21_StartStopPairing ==
    /\ [](\A n \in Nodes :
            /\ Cardinality(StartsOf(n)) <= 1
            /\ Cardinality(StopsOf(n)) <= 1
            /\ \A j \in StopsOf(n) : \E i \in StartsOf(n) : i < j
            /\ n \in UnderWay => (StartsOf(n) # {} /\ StopsOf(n) = {})
            /\ (StartsOf(n) # {} /\ StopsOf(n) = {}) =>
                  (n \in UnderWay \/ CutByFault(n))
            /\ \A a \in Nodes : IsAncestor(a, n) =>
                  /\ \A i \in StartsOf(n) : \E k \in StartsOf(a) : k < i
                  /\ \A k \in StopsOf(a) :
                        /\ \A i \in StartsOf(n) : i < k
                        /\ StartsOf(n) # {} => \E j \in StopsOf(n) : j < k)
    /\ [][/\ \A n \in Nodes :
               StopsOf(n)' # StopsOf(n) => call_log' = Append(call_log, n)
          /\ (call_log' # call_log /\ call_log' # <<>>) =>
               \E n \in Nodes : StopsOf(n)' # StopsOf(n)]_vars

\* A root has been left whose children were a failed one and a skipped one.
C21_Witness ==
    /\ StopsOf(<<1>>) # {}
    /\ \E i, j \in 1..Len(events) :
          /\ events[i].node = <<1, 1>> /\ events[j].node = <<1, 2>>
          /\ ~events[i].is_running /\ ~events[j].is_running
          /\ (events[i].error /\ events[j].skip) \/ (events[i].skip /\ events[j].error)

\* The node's children are entered.
RunsChildren(n) ==
    /\ ~NotRun(n)
    /\ n \notin tree.failing
    /\ n \notin tree.unterminated
    /\ n \notin tree.faulting

\* The node's body raises what the engine does not trap.
Faults(n) == n \in tree.faulting /\ ~NotRun(n)

\* The stop record of a node, from the inputs alone.
DeclaredStop(n) ==
    [node |-> n, is_running |-> FALSE,
     error |-> (n \in tree.failing /\ ~NotRun(n)), skip |-> NotRun(n),
     reason |-> SkipReason(n)]

\* The records of the children of root r from child c on, in declaration
\* order, and the root's stop record after them.
RECURSIVE DeclaredFrom(_, _)
DeclaredFrom(r, c) ==
    IF c > NChildren THEN <<DeclaredStop(<<r>>)>>
    ELSE IF Faults(<<r, c>>) THEN <<StartRecord(<<r, c>>)>>
    ELSE <<StartRecord(<<r, c>>), DeclaredStop(<<r, c>>)>> \o DeclaredFrom(r, c + 1)

DeclaredRoot(r) ==
    <<StartRecord(<<r>>)>> \o
        (IF Faults(<<r>>) THEN <<>>
         ELSE IF RunsChildren(<<r>>) THEN DeclaredFrom(r, 1)
         ELSE <<DeclaredStop(<<r>>)>>)

RootFaults(r) ==
    \/ Faults(<<r>>)
    \/ RunsChildren(<<r>>) /\ \E c \in 1..NChildren : Faults(<<r, c>>)

\* The records of a whole run from root r on, in declaration order.
RECURSIVE DeclaredRun(_)
DeclaredRun(r) ==
    IF r > NTreeRoots THEN <<>>
    ELSE DeclaredRoot(r) \o
            (IF RootFaults(r) /\ eng_mode = "runner" THEN <<>> ELSE DeclaredRun(r + 1))

IsPrefix(s, t) == Len(s) <= Len(t) /\ SubSeq(t, 1, Len(s)) = s

\* C22: with disable_shuffle set, the records emitted so far are the first
\* records of the sequence the inputs alone determine, in which siblings
\* come in declaration order; a run that is over has emitted all of it. (So
\* two runs with the same inputs emit the same sequence.)
C22_DeclarationOrderIsDeterministic ==
    disable_shuffle =>
        /\ IsPrefix(events, DeclaredRun(1))
        /\ RunOver => events = DeclaredRun(1)

\* A run with disable_shuffle set is over in which every node was entered.
C22_Witness ==
    /\ disable_shuffle
    /\ RunOver
    /\ \A n \in Nodes : StopsOf(n) # {}

\* The nodes at the level of n and at shallower levels, other than n and
\* its ancestors.
SiblingsAndShallower(n) ==
    {m \in Nodes : /\ m \notin Prefixes(n)
                     /\ Len(m) <= Len(n)
                     /\ (Len(m) = 1 \/ SubSeq(m, 1, Len(m) - 1) \in Prefixes(n))}

\* C23: the step in which a node's body fails appends the node to
\* call_errors and leaves the engine running with the calls under way as
\* they were; the node's stop record carries the error; and when the
\* run is over (no exception having left the engine) the node and every
\* node at its level and at shallower levels has a start and a stop record.
C23_FailureIsCaughtAtItsNode ==
    /\ [](\A n \in tree.failing \cap invoked :
            /\ \A j \in StopsOf(n) : events[j].error
            /\ (RunOver /\ invoked \cap tree.faulting = {}) =>
                  /\ StopsOf(n) # {}
                  /\ \A m \in SiblingsAndShallower(n) :
                        StartsOf(m) # {} /\ StopsOf(m) # {})
    /\ [][\A n \in tree.failing :
             (n \in invoked' /\ n \notin invoked) =>
                /\ call_errors' = Append(call_errors, n)
                /\ eng_pc' = "run"
                /\ Len(frames') = Len(frames)
                /\ \A i \in 1..(Len(frames) - 1) : frames'[i] = frames[i]]_vars

\* A run is over in which the first child entered of the first root failed
\* and the second root failed.
C23_Witness ==
    /\ RunOver
    /\ invoked \cap tree.faulting = {}
    /\ <<2>> \in tree.failing \cap invoked
    /\ \E c \in 1..NChildren :
          /\ <<1, c>> \in tree.failing \cap invoked
          /\ \A j \in StopsOf(<<1, c>>) : \A d \in 1..NChildren :
                \A k \in StopsOf(<<1, d>>) : j <= k

\* The (full_name, error, skip) of a stop record.
OutcomeOf(e) == <<e.node, e.error, e.reason>>

\* How many stop records have the outcome t.
OutcomeCount(t) ==
    Cardinality({i \in 1..Len(events) :
                   ~events[i].is_running /\ OutcomeOf(events[i]) = t})

\* How many stop records of the run in declaration order have the outcome t.
DeclaredOutcomeCount(t) ==
    LET run == DeclaredRun(1)
    IN Cardinality({i \in 1..Len(run) :
                      ~run[i].is_running /\ OutcomeOf(run[i]) = t})

Outcomes == Nodes \X BOOLEAN \X {"", "skip_reasons", "filtered"}

C25_AllowListFilters ==
    (/\ allow_to_run = AllowOnly({<<1, 1>>})
     /\ tree = NoMarks
     /\ StopsOf(<<1>>) # {})
    => \A n \in Nodes : n[1] = 1 =>
          /\ StartsOf(n) # {} /\ StopsOf(n) # {}
          /\ \A i \in StartsOf(n) \cup StopsOf(n) :
                IF n \in {<<1>>, <<1, 1>>}
                THEN ~events[i].skip
                ELSE events[i].skip /\ events[i].reason = "filtered"

\* The lines of the file that are records' lines, in order.
WellFormed(f) == SelectSeq(f, LAMBDA line : line.ok)

\* C26: no exception leaves read_zest_result_line, and when it has
\* returned it has yielded the record of every well-formed line, in order.
C26_MalformedLineIsSkipped ==
    /\ rd_pc # "raised"
    /\ rd_pc = "eof" => yielded = WellFormed(fd)

\* How many entries of the list name the node.
EntriesOf(list, n) == Cardinality({i \in 1..Len(list) : list[i] = n})

\* C27: in a run of ZestRunner, call_log and timings hold one entry for
\* each stop record emitted.
C27_EachStopAccountedOnce ==
    eng_mode = "runner" =>
        \A n \in Nodes :
            /\ EntriesOf(call_log, n) = Cardinality(StopsOf(n))
            /\ EntriesOf(timings, n) = Cardinality(StopsOf(n))

\* The roots of the work orders some process is running.
RunningRoots == {procs[p].root : p \in Running}

\* How many work orders for root r are pending.
PendingOrders(r) == Cardinality({i \in 1..Len(pending) : pending[i] = r})

PipeOf(p) ==
    SelectSeq([i \in 1..Len(called) |-> Unstamped(called[i])],
              LAMBDA z : z.pid = p)
        \o SelectSeq(queue, LAMBDA z : z.kind = "result" /\ z.pid = p)
        \o SelectSeq(feed[p], LAMBDA z : z.kind = "result")

\* The records of a root are together, its start record before its stop
\* record.
InEmissionOrder(s) ==
    \A i, j \in 1..Len(s) :
        (i < j /\ s[i].root = s[j].root) =>
            /\ s[i].is_running /\ ~s[j].is_running
            /\ j = i + 1

\* The records of every process reach the callback in the order the
\* process emitted them.
PerWorkerOrderPreserved ==
    /\ \A p \in Pids : InEmissionOrder(PipeOf(p))
    /\ \A i, j \in 1..Len(called) :
          (i < j /\ called[i].root = called[j].root) =>
              (called[i].is_running /\ ~called[j].is_running)

\* C29: the callback receives each worker's records in the order the
\* worker emitted them, a node's start record before its stop record; and
\* when poll has returned False (in a run not asked to stop, in which
\* nothing was raised and no worker killed) the last record received of
\* every root is that root's stop record.
C29_PerWorkerOrderEndToEnd ==
    /\ PerWorkerOrderPreserved
    /\ (pc = "exited" /\ ~request_stop /\ NIncidents = 0) =>
          \A r \in done :
              \A i \in 1..Len(called) :
                  (called[i].root = r /\ \A j \in (i + 1)..Len(called) : called[j].root # r)
                      => ~called[i].is_running

\* The dot-prefixes of a full name, by its characters: the name itself,
\* and what stands before one of its dots.
DotPrefix(a, n) ==
    LET fa == FullName(a)
        fn == FullName(n)
    IN \/ fa = fn
       \/ Len(fa) < Len(fn) /\ SubSeq(fn, 1, Len(fa) + 1) = fa \o <<".">>

\* full_name contains match_string (or match_string is None)
HasMatch(n) ==
    \/ match_string = <<>>
    \/ \E i, j \in 0..Len(FullName(n)) :
          i < j /\ SubSeq(FullName(n), i + 1, j) = match_string

\* C30: after the discovery, allow_to_run holds every full name found that
\* contains match_string (every name found when match_string is None) and
\* each dot-prefix of such a name; every name it holds is such a name or
\* such a prefix.
C30_AllowListClosedUnderAncestors ==
    eng_pc = "idle" =>
        /\ ~allow_to_run.all
        /\ \A n \in zests : HasMatch(n) =>
              \A a \in Nodes : DotPrefix(a, n) => a \in allow_to_run.names
        /\ \A a \in allow_to_run.names :
              \E n \in zests : HasMatch(n) /\ DotPrefix(a, n)

\* The discovery has put a root on the list that does not match, for a
\* child of it that does, and has left another root off the list.
C30_Witness ==
    /\ eng_pc = "idle"
    /\ match_string # <<>>
    /\ \E a \in allow_to_run.names : Len(a) = 1 /\ ~HasMatch(a)
    /\ \E n \in zests : Len(n) = 1 /\ n \notin allow_to_run.names

\* C9: a pid not seen before is bound to the next free index (the number of
\* pids seen so far), a pid once bound keeps its index, and no two pids
\* share an index.
C9_SlotAssignment ==
    /\ [][/\ \A p \in DOMAIN pid_to_worker_i :
                /\ p \in DOMAIN pid_to_worker_i'
                /\ pid_to_worker_i'[p] = pid_to_worker_i[p]
          /\ \A p \in DOMAIN pid_to_worker_i' \ DOMAIN pid_to_worker_i :
                pid_to_worker_i'[p] = Cardinality(DOMAIN pid_to_worker_i)]_vars
    /\ [](\A p, q \in DOMAIN pid_to_worker_i :
             pid_to_worker_i[p] = pid_to_worker_i[q] => p = q)

\* Two pids have been bound, in the order their first records arrived.
C9_Witness ==
    /\ Cardinality(DOMAIN pid_to_worker_i) = 2
    /\ called # <<>>
    /\ pid_to_worker_i[called[1].pid] = 0

\* C10: the index assigned to a record's pid is always in 0..n_workers-1,
\* also with records from a process that replaced a dead worker.
C10_WorkerIndexInRange ==
    \A p \in DOMAIN pid_to_worker_i : pid_to_worker_i[p] \in 0..(NWorkers - 1)

\* A body defines a test after its call of zest().
DefinesTestAfterZestCall(func_body) ==
    \E i \in 1..Len(func_body) : \E j \in 1..Len(func_body) :
        /\ i < j
        /\ func_body[i].kind = "zest"
        /\ DefinesTest(func_body[j])

\* C31: once recurse_ast has returned, a root zest without a skip
\* decorator whose body defines a test after its call of zest() has been
\* reported with "did not call zest() before all functions were defined",
\* and is counted in n_zest_missing_errors.
C31_ChildAfterZestCallIsReported ==
    (/\ ast_pc = "done"
     /\ module_body # <<>>
     /\ ~module_body[1].skip
     /\ DefinesTestAfterZestCall(module_body[1].body))
        => (/\ \E k \in 1..Len(reports) :
                   reports[k] = [func |-> <<1>>, msg |-> BeforeAllDefined]
            /\ n_zest_missing_errors >= 1)

\* C32: runner_thread_start is called only when runner_thread is None:
\* its assertion is never reached with a runner thread set, and never fails.
C32_NeverTwoRunnerThreads ==
    /\ ui_pc = "start_assert" => runner_thread = "None"
    /\ ui_pc # "AssertionError"

\* The runner thread is inside ZestRunner.run.
RunInProgress ==
    thread = "alive" /\ run_pc \in {"walk", "launch", "root", "complete"}

\* A re-run has been requested while a run is in progress (at
\* "clear_request" request_run still holds the request this run serves).
RerunRequested ==
    /\ run_state = RUNNING
    /\ RunInProgress
    /\ request_run # "None"
    /\ ui_pc # "clear_request"

\* runner_thread_start has just started a run.
RunStarted == ui_pc = "set_running"

\* C33: a re-run requested while a run is in progress is never dropped: a
\* new run eventually starts (unless q ends the UI first), and STOPPING
\* is entered only from RUNNING with a request pending.
C33_RerunIsNeverDropped ==
    /\ RerunRequested ~> (RunStarted \/ ui_pc = "quit")
    /\ [][(run_state' = STOPPING /\ run_state # STOPPING)
            => (run_state = RUNNING /\ request_run # "None")]_vars

\* C34: runner_thread_is_running never calls is_alive() on None: whenever
\* the runner thread sets runner_thread = None, the call still returns a
\* boolean.
C34_IsRunningNeverDereferencesNone ==
    /\ ui_pc # "AttributeError"
    /\ (ui_pc = "is_alive" /\ seen_not_none) => runner_thread # "None"

\* C35: the retcode of a run depends on that run only: a run that ends
\* with no test error, no error written by recurse_ast on the files it
\* scanned and no stop request has retcode 0, whatever earlier runs in the
\* same process reported.
C35_RetcodeDependsOnThisRunOnly ==
    (/\ run_pc = "finally"
     /\ run_errors = 0
     /\ scan_missing = 0
     /\ ~stop_seen
     /\ ~stop_requested)
        => run_retcode = 0

\* C36: once event_stop_requested() has returned true during a run, no
\* further root zest is started, and the run ends with retcode 1. (The
\* runner thread asks between roots only, so a root under way after the
\* answer is one that was started after it.)
C36_StopEndsTheRun ==
    /\ stop_seen => run_pc # "root"
    /\ (stop_seen /\ run_pc = "finally") => run_retcode = 1

====
